---- MODULE Spec2Model ----
(***************************************************************************)
(* iframify (src/index.js): replace a node by an iframe that holds the     *)
(* node's markup and the stylesheet rules relevant to it.                  *)
(*                                                                         *)
(* Strings are sequences of UTF-16 code units; a code unit is written as   *)
(* the one-character string it prints as, or "U+XXXX" outside ASCII.       *)
(* A JavaScript object is a record: a property is present when its name is *)
(* in the record's DOMAIN.                                                 *)
(***************************************************************************)
EXTENDS Integers, Sequences, FiniteSets, TLC

\* ------------------------------------------------------------------------
\* Strings and code units
\* ------------------------------------------------------------------------

\* Code unit values of the characters the model's documents are written in.
CodeOf ==
  (" " :> 32) @@ ("!" :> 33) @@ ("\"" :> 34) @@ ("#" :> 35) @@ ("%" :> 37) @@
  ("&" :> 38) @@ ("," :> 44) @@ ("-" :> 45) @@ ("." :> 46) @@ ("/" :> 47) @@
  ("0" :> 48) @@ ("1" :> 49) @@ ("2" :> 50) @@ ("3" :> 51) @@ ("4" :> 52) @@
  ("5" :> 53) @@ ("6" :> 54) @@ ("7" :> 55) @@ ("8" :> 56) @@ ("9" :> 57) @@
  (":" :> 58) @@ (";" :> 59) @@ ("<" :> 60) @@ ("=" :> 61) @@ (">" :> 62) @@
  ("?" :> 63) @@ ("@" :> 64) @@ ("A" :> 65) @@ ("B" :> 66) @@ ("C" :> 67) @@
  ("D" :> 68) @@ ("E" :> 69) @@ ("F" :> 70) @@ ("a" :> 97) @@ ("b" :> 98) @@
  ("c" :> 99) @@ ("d" :> 100) @@ ("e" :> 101) @@ ("f" :> 102) @@
  ("g" :> 103) @@ ("h" :> 104) @@ ("i" :> 105) @@ ("l" :> 108) @@
  ("m" :> 109) @@ ("n" :> 110) @@ ("o" :> 111) @@ ("p" :> 112) @@
  ("r" :> 114) @@ ("s" :> 115) @@ ("t" :> 116) @@ ("u" :> 117) @@
  ("x" :> 120) @@ ("y" :> 121) @@ ("{" :> 123) @@ ("}" :> 125) @@
  ("U+00E9" :> 233) @@ ("U+D83D" :> 55357) @@ ("U+DE00" :> 56832) @@
  ("U+FFFD" :> 65533)

\* The code unit with value n (U+FFFD when the model has no name for it).
CharOf(n) ==
  IF \E c \in DOMAIN CodeOf : CodeOf[c] = n
  THEN CHOOSE c \in DOMAIN CodeOf : CodeOf[c] = n
  ELSE "U+FFFD"

HexDigits == <<"0", "1", "2", "3", "4", "5", "6", "7",
               "8", "9", "A", "B", "C", "D", "E", "F">>

IsHex(c) == c \in {HexDigits[i] : i \in 1..16} \cup {"a", "b", "c", "d", "e", "f"}

HexVal(c) ==
  IF \E i \in 1..16 : HexDigits[i] = c
  THEN (CHOOSE i \in 1..16 : HexDigits[i] = c) - 1
  ELSE CodeOf[c] - 87

IsHighSurrogate(n) == n >= 55296 /\ n <= 56319
IsLowSurrogate(n) == n >= 56320 /\ n <= 57343

\* String.prototype + on strings: concatenation of all of a list.
RECURSIVE Join(_)
Join(parts) ==
  IF parts = <<>> THEN <<>> ELSE Head(parts) \o Join(Tail(parts))

\* ------------------------------------------------------------------------
\* encodeURI (ECMAScript Encode with the uriReserved + uriUnescaped + "#"
\* set left as is), and what a data: URL delivers when it is loaded
\* ------------------------------------------------------------------------

\* The characters encodeURI leaves unescaped.
UriUnescapedByEncodeURI ==
  {";", "/", "?", ":", "@", "&", "=", "+", "$", ",", "#",
   "-", "_", ".", "!", "~", "*", "'", "(", ")"}
  \cup {HexDigits[i] : i \in 1..16}
  \cup {"a", "b", "c", "d", "e", "f", "g", "h", "i", "l", "m", "n", "o", "p",
        "r", "s", "t", "u", "x", "y"}

\* The UTF-8 octets of code point cp.
Utf8Octets(cp) ==
  IF cp < 128 THEN <<cp>>
  ELSE IF cp < 2048 THEN <<192 + (cp \div 64), 128 + (cp % 64)>>
  ELSE IF cp < 65536
    THEN <<224 + (cp \div 4096), 128 + ((cp \div 64) % 64), 128 + (cp % 64)>>
  ELSE <<240 + (cp \div 262144), 128 + ((cp \div 4096) % 64),
         128 + ((cp \div 64) % 64), 128 + (cp % 64)>>

\* "%XX" for one octet.
PercentOctet(b) == <<"%", HexDigits[(b \div 16) + 1], HexDigits[(b % 16) + 1]>>

RECURSIVE PercentOctets(_)
PercentOctets(bs) ==
  IF bs = <<>> THEN <<>> ELSE PercentOctet(Head(bs)) \o PercentOctets(Tail(bs))

\* The concatenation of pieces[lo], ..., pieces[hi].
RECURSIVE ConcatRange(_, _, _)
ConcatRange(pieces, lo, hi) ==
  IF lo > hi THEN <<>>
  ELSE IF lo = hi THEN pieces[lo]
  ELSE LET mid == (lo + hi) \div 2
       IN ConcatRange(pieces, lo, mid) \o ConcatRange(pieces, mid + 1, hi)

Concat(pieces) == ConcatRange(pieces, 1, Len(pieces))

\* The Encode loop of encodeURI, position by position: a high surrogate
\* takes the low surrogate after it; any other surrogate is alone.
PairAt(s, i) ==
  /\ IsHighSurrogate(CodeOf[s[i]])
  /\ i < Len(s)
  /\ IsLowSurrogate(CodeOf[s[i + 1]])

TakenByPair(s, i) == IsLowSurrogate(CodeOf[s[i]]) /\ i > 1 /\ PairAt(s, i - 1)

LoneSurrogateAt(s, i) ==
  \/ IsHighSurrogate(CodeOf[s[i]]) /\ ~PairAt(s, i)
  \/ IsLowSurrogate(CodeOf[s[i]]) /\ ~TakenByPair(s, i)

EncodedAt(s, i) ==
  IF s[i] \in UriUnescapedByEncodeURI THEN <<s[i]>>
  ELSE IF PairAt(s, i)
    THEN PercentOctets(Utf8Octets((CodeOf[s[i]] - 55296) * 1024
                                  + (CodeOf[s[i + 1]] - 56320) + 65536))
  ELSE IF TakenByPair(s, i) THEN <<>>
  ELSE PercentOctets(Utf8Octets(CodeOf[s[i]]))

\* encodeURI(s): [threw, error, value]. A lone surrogate raises URIError.
encodeURI(s) ==
  IF \E i \in 1..Len(s) : LoneSurrogateAt(s, i)
  THEN [threw |-> TRUE, error |-> "URIError", value |-> <<>>]
  ELSE [threw |-> FALSE, error |-> "",
        value |-> Concat([i \in 1..Len(s) |-> EncodedAt(s, i)])]

\* Percent-decoding to octets: "%XX" is one octet, any other character its
\* own UTF-8 octets.
EscapeAt(s, i) ==
  s[i] = "%" /\ i + 2 <= Len(s) /\ IsHex(s[i + 1]) /\ IsHex(s[i + 2])

InEscape(s, i) ==
  \/ i > 1 /\ EscapeAt(s, i - 1)
  \/ i > 2 /\ EscapeAt(s, i - 2)

PercentDecodeOctets(s) ==
  Concat([i \in 1..Len(s) |->
            IF EscapeAt(s, i) THEN <<16 * HexVal(s[i + 1]) + HexVal(s[i + 2])>>
            ELSE IF InEscape(s, i) THEN <<>>
            ELSE Utf8Octets(CodeOf[s[i]])])

IsContinuation(bs, i) == i >= 1 /\ i <= Len(bs) /\ bs[i] >= 128 /\ bs[i] < 192

\* The code units of code point cp.
CodeUnits(cp) ==
  IF cp < 65536 THEN <<CharOf(cp)>>
  ELSE <<CharOf(55296 + ((cp - 65536) \div 1024)),
         CharOf(56320 + ((cp - 65536) % 1024))>>

\* How many continuation octets the lead octet b asks for (4: not a lead).
Utf8Need(b) ==
  IF b < 128 THEN 0
  ELSE IF b >= 192 /\ b < 224 THEN 1
  ELSE IF b >= 224 /\ b < 240 THEN 2
  ELSE IF b >= 240 /\ b < 248 THEN 3
  ELSE 4

WellFormedAt(bs, i) ==
  /\ Utf8Need(bs[i]) <= 3
  /\ \A j \in 1..Utf8Need(bs[i]) : IsContinuation(bs, i + j)

TakenByLead(bs, i) ==
  /\ IsContinuation(bs, i)
  /\ \E d \in 1..3 :
       /\ i - d >= 1
       /\ bs[i - d] >= 192
       /\ Utf8Need(bs[i - d]) >= d
       /\ WellFormedAt(bs, i - d)

Utf8CodePointAt(bs, i) ==
  LET need == Utf8Need(bs[i])
  IN IF need = 0 THEN bs[i]
     ELSE IF need = 1 THEN (bs[i] - 192) * 64 + (bs[i + 1] - 128)
     ELSE IF need = 2
       THEN (bs[i] - 224) * 4096 + (bs[i + 1] - 128) * 64 + (bs[i + 2] - 128)
     ELSE (bs[i] - 240) * 262144 + (bs[i + 1] - 128) * 4096
          + (bs[i + 2] - 128) * 64 + (bs[i + 3] - 128)

\* UTF-8 decoding; an ill-formed sequence decodes to U+FFFD.
Utf8Decode(bs) ==
  Concat([i \in 1..Len(bs) |->
            IF TakenByLead(bs, i) THEN <<>>
            ELSE IF WellFormedAt(bs, i) THEN CodeUnits(Utf8CodePointAt(bs, i))
            ELSE <<"U+FFFD">>])

\* Percent-decoding of a string, read as UTF-8.
PercentDecode(s) == Utf8Decode(PercentDecodeOctets(s))

\* ------------------------------------------------------------------------
\* The page: elements, selectors, stylesheet rules
\* ------------------------------------------------------------------------

\* The elements of the page. body holds n1, n2, n3; kids are child elements
\* in document order. st is a <style> element inside n1.
Element ==
  [n1 |-> [tag |-> "div", classes |-> {"a"}, id |-> "", kids |-> <<"st", "p1">>],
   st |-> [tag |-> "style", classes |-> {}, id |-> "", kids |-> <<>>],
   p1 |-> [tag |-> "p", classes |-> {"c"}, id |-> "x", kids |-> <<>>],
   n2 |-> [tag |-> "div", classes |-> {"b"}, id |-> "", kids |-> <<"p2">>],
   p2 |-> [tag |-> "span", classes |-> {"a", "c"}, id |-> "", kids |-> <<"u">>],
   u  |-> [tag |-> "undefined", classes |-> {}, id |-> "", kids |-> <<>>],
   n3 |-> [tag |-> "div", classes |-> {}, id |-> "", kids |-> <<>>]]

Elements == DOMAIN Element

\* The nodes iframify is called on: the children of body.
Targets == {"n1", "n2", "n3"}

\* node.innerHTML of the targets.
InnerHTML ==
  [n1 |-> <<"<", "s", "t", "y", "l", "e", ">", ".", "b", "{", "}", "<", "/",
            "s", "t", "y", "l", "e", ">", "<", "p", " ", "i", "d", "=", "\"",
            "x", "\"", " ", "c", "l", "a", "s", "s", "=", "\"", "c", "\"", ">",
            "a", "&", "a", "m", "p", ";", "b", "?", "<", "/", "p", ">">>,
   n2 |-> <<"<", "s", "p", "a", "n", " ", "c", "l", "a", "s", "s", "=", "\"",
            "a", " ", "c", "\"", ">", "5", "0", "%", "U+00E9", "U+D83D",
            "U+DE00", "<", "u", "n", "d", "e", "f", "i", "n", "e", "d", ">",
            "<", "/", "u", "n", "d", "e", "f", "i", "n", "e", "d", ">",
            "<", "/", "s", "p", "a", "n", ">">>,
   n3 |-> <<"h", "i", "U+D83D">>]

\* rootNode.querySelectorAll('*'): the descendant elements in document order.
RECURSIVE querySelectorAllStar(_)
RECURSIVE DescendantsOfList(_)
DescendantsOfList(ks) ==
  IF ks = <<>> THEN <<>>
  ELSE <<Head(ks)>> \o querySelectorAllStar(Head(ks)) \o DescendantsOfList(Tail(ks))

querySelectorAllStar(e) == DescendantsOfList(Element[e].kids)

\* The JavaScript value undefined, and its conversion to a DOMString.
Undefined == "$undefined"

ToDOMString(v) == IF v = Undefined THEN "undefined" ELSE v

\* obj[name]: undefined when the object has no such property.
Get(obj, name) == IF name \in DOMAIN obj THEN obj[name] ELSE Undefined

\* The selectors of the page's rules, parsed. "undefined" is the type
\* selector that the string "undefined" parses to.
Selector ==
  (".a" :> [kind |-> "class", name |-> "a"]) @@
  (".b" :> [kind |-> "class", name |-> "b"]) @@
  (".c" :> [kind |-> "class", name |-> "c"]) @@
  ("#x" :> [kind |-> "id", name |-> "x"]) @@
  ("undefined" :> [kind |-> "type", name |-> "undefined"])

\* node.matches(selectors): the argument is converted to a DOMString first.
matches(node, selectors) ==
  LET sel == Selector[ToDOMString(selectors)]
  IN CASE sel.kind = "class" -> sel.name \in Element[node].classes
       [] sel.kind = "id" -> sel.name = Element[node].id
       [] sel.kind = "type" -> sel.name = Element[node].tag

\* Style rules (selectorText, cssText), group rules (cssRules, cssText) and
\* rules with neither (cssText only).
StyleRule(sel, text) == [selectorText |-> sel, cssText |-> text]

GroupRule(nested, text) == [cssRules |-> nested, cssText |-> text]

RuleA == StyleRule(".a", <<".", "a", "{", "}">>)
RuleB == StyleRule(".b", <<".", "b", "{", "}">>)
RuleC == StyleRule(".c", <<".", "c", "{", "}">>)
RuleX == StyleRule("#x", <<"#", "x", "{", "}">>)
RuleFontFace == [cssText |-> <<"@", "f", "o", "n", "t", "-", "f", "a", "c", "e", "{", "}">>]
RuleMedia ==
  GroupRule(<<RuleC, RuleB>>,
            <<"@", "m", "e", "d", "i", "a", "{", ".", "c", "{", "}", ".", "b", "{", "}", "}">>)
RuleInnerMedia ==
  GroupRule(<<RuleA>>, <<"@", "m", "e", "d", "i", "a", "{", ".", "a", "{", "}", "}">>)

\* The top-level rules a stylesheet of the page may hold.
RuleUniverse == {RuleA, RuleX, RuleMedia, RuleFontFace}

\* ------------------------------------------------------------------------
\* shouldAddRule, getRulesImpactingNode, getStylesForTree
\* ------------------------------------------------------------------------

\* shouldAddRule(node, cssRule).
shouldAddRule(node, cssRule) ==
  IF "cssRules" \in DOMAIN cssRule
  THEN \E k \in 1..Len(cssRule.cssRules) :
         matches(node, Get(cssRule.cssRules[k], "selectorText"))
  ELSE matches(node, Get(cssRule, "selectorText"))

\* A stylesheet object: crossOrigin sheets raise when their rule list is
\* read; the others have cssRules, or rules (legacy hosts), or neither.
StyleSheet(owner, kind) ==
  CASE kind = "cssRules" -> [owner |-> owner, crossOrigin |-> FALSE, cssRules |-> <<>>]
    [] kind = "rules" -> [owner |-> owner, crossOrigin |-> FALSE, rules |-> <<>>]
    [] kind = "none" -> [owner |-> owner, crossOrigin |-> FALSE]
    [] kind = "crossOrigin" -> [owner |-> owner, crossOrigin |-> TRUE]

SheetKinds == {"cssRules", "rules", "none", "crossOrigin"}

\* stylesheets[i].cssRules || stylesheets[i].rules; <<>> stands for a falsy
\* value only together with found = FALSE.
ReadRuleList(sheet) ==
  IF sheet.crossOrigin
    THEN [threw |-> TRUE, found |-> FALSE, list |-> <<>>]
  ELSE IF "cssRules" \in DOMAIN sheet
    THEN [threw |-> FALSE, found |-> TRUE, list |-> sheet.cssRules]
  ELSE IF "rules" \in DOMAIN sheet
    THEN [threw |-> FALSE, found |-> TRUE, list |-> sheet.rules]
  ELSE [threw |-> FALSE, found |-> FALSE, list |-> <<>>]

InSeq(x, s) == \E i \in 1..Len(s) : s[i] = x

\* object[key] = true on an object whose own keys, in insertion order, are
\* `object`. ObjectSetPush is an array push in its place.
ObjectSetPush(object, key) == Append(object, key)

ObjectSet(object, key) == IF InSeq(key, object) THEN object ELSE Append(object, key)

\* The inner loop of getRulesImpactingNode over one rule list.
RECURSIVE AddRulesOfList(_, _, _)
AddRulesOfList(node, cssRules, object) ==
  IF cssRules = <<>> THEN object
  ELSE AddRulesOfList(node, Tail(cssRules),
         IF shouldAddRule(node, Head(cssRules))
         THEN ObjectSet(object, Head(cssRules).cssText)
         ELSE object)

\* The outer loop of getRulesImpactingNode from stylesheet i on; `read` is
\* what reading the rule list of stylesheet i gave.
RECURSIVE RulesFromSheet(_, _, _, _)
AfterRead(node, stylesheets, i, object, read) ==
  IF read.threw
    THEN [threw |-> TRUE, error |-> "SecurityError", keys |-> <<>>]
  ELSE IF ~read.found
    THEN RulesFromSheet(node, stylesheets, i + 1, object)
  ELSE RulesFromSheet(node, stylesheets, i + 1,
                      AddRulesOfList(node, read.list, object))

RulesFromSheet(node, stylesheets, i, object) ==
  IF i > Len(stylesheets)
  THEN [threw |-> FALSE, error |-> "", keys |-> object]
  ELSE AfterRead(node, stylesheets, i, object, ReadRuleList(stylesheets[i]))

\* getRulesImpactingNode(node) when document.styleSheets is `stylesheets`.
getRulesImpactingNode(node, stylesheets) ==
  RulesFromSheet(node, stylesheets, 1, <<>>)

\* Object.assign({}, tree, more): the keys of tree, then the new keys of
\* more. ObjectAssignMoreFirst lists the keys of more first.
RECURSIVE ObjectAssign(_, _)
ObjectAssignMoreFirst(tree, more) ==
  more \o SelectSeq(tree, LAMBDA k : ~InSeq(k, more))

ObjectAssign(tree, more) ==
  IF more = <<>> THEN tree
  ELSE ObjectAssign(ObjectSet(tree, Head(more)), Tail(more))

\* One step of the reduce of getStylesForTree: tree and more are results
\* [threw, error, keys]; an error raised by getRulesImpactingNode ends it.
ReduceStep(tree, more) ==
  IF more.threw THEN more
  ELSE [threw |-> FALSE, error |-> "", keys |-> ObjectAssign(tree.keys, more.keys)]

\* Array.prototype.reduce.call(children, ..., tree) of getStylesForTree.
RECURSIVE ReduceChildren(_, _, _)
ReduceChildren(children, tree, stylesheets) ==
  IF tree.threw \/ children = <<>> THEN tree
  ELSE ReduceChildren(Tail(children),
                      ReduceStep(tree, getRulesImpactingNode(Head(children), stylesheets)),
                      stylesheets)

\* The `rules` object of getStylesForTree: [threw, error, keys].
RulesForTree(rootNode, stylesheets) ==
  ReduceChildren(querySelectorAllStar(rootNode),
                 getRulesImpactingNode(rootNode, stylesheets), stylesheets)

\* Object.keys(rules).join('') for the result `rules`: [threw, error, keys,
\* value].
JoinKeys(rules) ==
  [threw |-> rules.threw, error |-> rules.error, keys |-> rules.keys,
   value |-> Join(rules.keys)]

\* getStylesForTree(rootNode).
getStylesForTree(rootNode, stylesheets) == JoinKeys(RulesForTree(rootNode, stylesheets))

\* ------------------------------------------------------------------------
\* getIframeContentForNode
\* ------------------------------------------------------------------------

DocOpen ==
  <<"<", "!", "d", "o", "c", "t", "y", "p", "e", " ", "h", "t", "m", "l", ">",
    "<", "h", "t", "m", "l", " ", "l", "a", "n", "g", "=", "\"", "e", "n", "\"",
    ">", "<", "h", "e", "a", "d", ">", "<", "s", "t", "y", "l", "e", ">">>

DocMid ==
  <<"<", "/", "s", "t", "y", "l", "e", ">", "<", "/", "h", "e", "a", "d", ">",
    "<", "b", "o", "d", "y", ">">>

DocClose ==
  <<"<", "/", "b", "o", "d", "y", ">", "<", "/", "h", "t", "m", "l", ">">>

\* The document around the styles and the markup of node.
ContentAround(node, styles) ==
  IF styles.threw
  THEN [threw |-> TRUE, error |-> styles.error, value |-> <<>>]
  ELSE [threw |-> FALSE, error |-> "",
        value |-> DocOpen \o styles.value \o DocMid \o InnerHTML[node] \o DocClose]

\* getIframeContentForNode(node): [threw, error, value].
getIframeContentForNode(node, stylesheets) ==
  ContentAround(node, getStylesForTree(node, stylesheets))

\* ------------------------------------------------------------------------
\* State
\* ------------------------------------------------------------------------

VARIABLES
  host,      \* the browser: [srcdoc, dataUriSameOrigin]
  sheets,    \* the stylesheet objects of the page, in document order
  bodyKids,  \* the child list of body, the parent of the targets
  frames,    \* the iframe elements created so far, in creation order
  timers,    \* the pending setTimeout callbacks, in firing order
  clock,     \* the time
  calls,     \* log: the iframify calls made, [node, error, at]
  runs,      \* log: the callbacks run, [frame, error, at, metrics]
  probe      \* the last result of a function applied on its own

vars == <<host, sheets, bodyKids, frames, timers, clock, calls, runs, probe>>

\* Bounds of the model.
MaxCalls == 3
MaxClock == 750
TickLen == 250
MaxSheets == 2
MaxRules == 2
MaxNested == 2

\* The delay given to setTimeout.
Delay == 500

NodeChild(n) == [kind |-> "node", node |-> n, frame |-> 0]

FrameChild(k) == [kind |-> "iframe", node |-> "", frame |-> k]

\* Whether an element is in the document: head always is, a target when it
\* is a child of body, any other element when its target is.
InDocument(e, kids) ==
  \/ e = "head"
  \/ \E i \in 1..Len(kids) :
       /\ kids[i].kind = "node"
       /\ (e = kids[i].node \/ InSeq(e, querySelectorAllStar(kids[i].node)))

\* document.styleSheets: the sheets whose owner element is in the document.
styleSheets(all, kids) == SelectSeq(all, LAMBDA sh : InDocument(sh.owner, kids))

Null == "$null"

\* node.parentNode for a target.
parentNode(node, kids) == IF InSeq(NodeChild(node), kids) THEN "body" ELSE Null

\* parent.replaceChild(newChild, oldChild) on the child list; the variant
\* removes oldChild and appends newChild.
replaceChildAppending(kids, newChild, oldChild) ==
  Append(SelectSeq(kids, LAMBDA c : c # oldChild), newChild)

replaceChild(kids, newChild, oldChild) ==
  [i \in 1..Len(kids) |-> IF kids[i] = oldChild THEN newChild ELSE kids[i]]

\* document.createElement('iframe'): the srcdoc property exists only on a
\* host that implements it.
createIframe(h) ==
  IF h.srcdoc
  THEN [srcdoc |-> <<>>, src |-> <<>>, height |-> <<>>]
  ELSE [src |-> <<>>, height |-> <<>>]

\* obj[name] = value: sets the property, creating it when it is missing.
SetProp(obj, name, value) ==
  [p \in DOMAIN obj \cup {name} |-> IF p = name THEN value ELSE obj[p]]

DataUriPrefix ==
  <<"d", "a", "t", "a", ":", "t", "e", "x", "t", "/", "h", "t", "m", "l", ";",
    "c", "h", "a", "r", "s", "e", "t", "=", "u", "t", "f", "-", "8", ",">>

\* ('srcdoc' in iframe) && setTimeout(..., 500), reached only once
\* replaceChild has returned. The variant schedules whatever happened before.
setTimeoutIfSrcdocAlways(iframe, k, replaced, queue, now) ==
  IF "srcdoc" \in DOMAIN iframe
  THEN Append(queue, [frame |-> k, due |-> now + Delay])
  ELSE queue

setTimeoutIfSrcdoc(iframe, k, replaced, queue, now) ==
  IF replaced /\ "srcdoc" \in DOMAIN iframe
  THEN Append(queue, [frame |-> k, due |-> now + Delay])
  ELSE queue

\* The end of iframify: replaceChild (TypeError when node has no parent),
\* then the timer.
ReplaceAndSchedule(node, k, iframe, kids, queue, now) ==
  IF parentNode(node, kids) = Null
  THEN [iframe |-> iframe, kids |-> kids, error |-> "TypeError",
        timers |-> setTimeoutIfSrcdoc(iframe, k, FALSE, queue, now)]
  ELSE [iframe |-> iframe,
        kids |-> replaceChild(kids, FrameChild(k), NodeChild(node)),
        error |-> "",
        timers |-> setTimeoutIfSrcdoc(iframe, k, TRUE, queue, now)]

\* iframe.src = 'data:text/html;charset=utf-8,' + encodeURI(html) and what
\* follows it; `encoded` is the result of encodeURI(html).
SetSrcAndReplace(node, k, iframe, encoded, kids, queue, now) ==
  IF encoded.threw
  THEN [iframe |-> iframe, kids |-> kids, error |-> encoded.error,
        timers |-> setTimeoutIfSrcdoc(iframe, k, FALSE, queue, now)]
  ELSE ReplaceAndSchedule(node, k,
         SetProp(iframe, "src", DataUriPrefix \o encoded.value), kids, queue, now)

\* iframe.srcdoc = html and what follows it; `html` is the result of
\* getIframeContentForNode(node).
SetSrcdocAndGoOn(node, k, iframe, html, kids, queue, now) ==
  IF html.threw
  THEN [iframe |-> iframe, kids |-> kids, error |-> html.error,
        timers |-> setTimeoutIfSrcdoc(iframe, k, FALSE, queue, now)]
  ELSE SetSrcAndReplace(node, k, SetProp(iframe, "srcdoc", html.value),
                        encodeURI(html.value), kids, queue, now)

\* iframify(node) as the k-th call: the iframe it leaves behind, the child
\* list of body, the timer queue, and the error it raised ("" when none).
iframify(node, k, h, all, kids, queue, now) ==
  SetSrcdocAndGoOn(node, k, createIframe(h),
                   getIframeContentForNode(node, styleSheets(all, kids)),
                   kids, queue, now)

\* Number to string, for n + 'px'.
RECURSIVE NumberToString(_)
NumberToString(n) ==
  IF n < 10 THEN <<HexDigits[n + 1]>>
  ELSE NumberToString(n \div 10) \o <<HexDigits[(n % 10) + 1]>>

\* What the callback may read: body.scrollHeight, body.offsetHeight,
\* html.clientHeight, html.scrollHeight, html.offsetHeight.
MetricChoices ==
  {<<300, 20, 150, 20, 20>>, <<8, 8, 150, 8, 420>>}

\* Math.max of the five; the variant leaves html.offsetHeight out.
MathMaxNoOffset(m) ==
  CHOOSE x \in {m[i] : i \in 1..4} : \A j \in 1..4 : m[j] <= x

MathMax(m) ==
  CHOOSE x \in {m[i] : i \in 1..5} : \A j \in 1..5 : m[j] <= x

\* Whether iframe.contentWindow.document can be read: the srcdoc document
\* has the page's origin; a document loaded from the data: URL has it only
\* on a host where data: URLs inherit the origin.
DocumentReadable(h) == h.srcdoc \/ h.dataUriSameOrigin

\* What the frame shows from its data: URL: the part after the prefix up to
\* the fragment, percent-decoded.
BeforeFragment(s) ==
  IF \E i \in 1..Len(s) : s[i] = "#"
  THEN SubSeq(s, 1, (CHOOSE i \in 1..Len(s) :
                       s[i] = "#" /\ \A j \in 1..(i - 1) : s[j] # "#") - 1)
  ELSE s

AfterPrefix(src) == SubSeq(src, Len(DataUriPrefix) + 1, Len(src))

DataUrlDocument(src) == PercentDecode(BeforeFragment(AfterPrefix(src)))

\* ------------------------------------------------------------------------
\* The page in use: iframify calls, time, callbacks
\* ------------------------------------------------------------------------

HeadSheet(kind, list) ==
  IF kind = "cssRules" THEN SetProp(StyleSheet("head", kind), "cssRules", list)
  ELSE IF kind = "rules" THEN SetProp(StyleSheet("head", kind), "rules", list)
  ELSE StyleSheet("head", kind)

\* The <style> element in n1 and its sheet.
InlineSheet == SetProp(StyleSheet("st", "cssRules"), "cssRules", <<RuleB>>)

\* The pages of the model: the stylesheets of head, then the inline sheet.
Pages ==
  {<<HeadSheet("cssRules", <<RuleA, RuleX, RuleMedia>>), InlineSheet>>,
   <<HeadSheet("none", <<>>), HeadSheet("rules", <<RuleX, RuleA>>), InlineSheet>>,
   <<HeadSheet("cssRules", <<RuleA>>), HeadSheet("crossOrigin", <<>>), InlineSheet>>}

NoProbe == [kind |-> "none"]

Init ==
  /\ host \in {[srcdoc |-> TRUE, dataUriSameOrigin |-> FALSE],
               [srcdoc |-> FALSE, dataUriSameOrigin |-> FALSE],
               [srcdoc |-> FALSE, dataUriSameOrigin |-> TRUE]}
  /\ sheets \in Pages
  /\ bodyKids = <<NodeChild("n1"), NodeChild("n2"), NodeChild("n3")>>
  /\ frames = <<>>
  /\ timers = <<>>
  /\ clock = 0
  /\ calls = <<>>
  /\ runs = <<>>
  /\ probe = NoProbe

\* The state after a call whose outcome is r.
AfterCall(node, r) ==
  /\ frames' = Append(frames, r.iframe)
  /\ bodyKids' = r.kids
  /\ timers' = r.timers
  /\ calls' = Append(calls, [node |-> node, error |-> r.error, at |-> clock])

\* A call iframify(node).
Iframify(node) ==
  /\ Len(calls) < MaxCalls
  /\ AfterCall(node, iframify(node, Len(frames) + 1, host, sheets, bodyKids,
                              timers, clock))
  /\ UNCHANGED <<host, sheets, clock, runs, probe>>

\* Time passes.
Tick ==
  /\ clock + TickLen <= MaxClock
  /\ clock' = clock + TickLen
  /\ UNCHANGED <<host, sheets, bodyKids, frames, timers, calls, runs, probe>>

\* The oldest due callback runs: it reads the frame's document and sets the
\* frame's height, or raises at the read.
MeasureHeight ==
  /\ timers # <<>>
  /\ Head(timers).due <= clock
  /\ LET k == Head(timers).frame
     IN IF DocumentReadable(host)
        THEN \E m \in MetricChoices :
               /\ frames' = [frames EXCEPT ![k] =
                    SetProp(@, "height", NumberToString(MathMax(m)) \o <<"p", "x">>)]
               /\ runs' = Append(runs, [frame |-> k, error |-> "", at |-> clock,
                                        metrics |-> m])
        ELSE /\ frames' = frames
             /\ runs' = Append(runs, [frame |-> k, error |-> "SecurityError",
                                      at |-> clock, metrics |-> <<>>])
  /\ timers' = Tail(timers)
  /\ UNCHANGED <<host, sheets, bodyKids, clock, calls, probe>>

Next ==
  \/ \E node \in Targets : Iframify(node)
  \/ Tick
  \/ MeasureHeight

Spec == Init /\ [][Next]_vars

\* ------------------------------------------------------------------------
\* getStylesForTree applied to the pages a stylesheet author can build
\* ------------------------------------------------------------------------

\* The rule list of a sheet ("cssRules" or "rules") or "" when it has none.
ListName(sheet) ==
  IF "cssRules" \in DOMAIN sheet THEN "cssRules"
  ELSE IF "rules" \in DOMAIN sheet THEN "rules"
  ELSE ""

RuleCount(sheet) == IF ListName(sheet) = "" THEN 0 ELSE Len(sheet[ListName(sheet)])

RECURSIVE TotalRules(_)
TotalRules(all) == IF all = <<>> THEN 0 ELSE RuleCount(Head(all)) + TotalRules(Tail(all))

InitCollect ==
  /\ host = [srcdoc |-> TRUE, dataUriSameOrigin |-> FALSE]
  /\ sheets = <<>>
  /\ bodyKids = <<NodeChild("n1"), NodeChild("n2"), NodeChild("n3")>>
  /\ frames = <<>>
  /\ timers = <<>>
  /\ clock = 0
  /\ calls = <<>>
  /\ runs = <<>>
  /\ probe = NoProbe

\* A stylesheet is added to head.
AddStyleSheet(kind) ==
  /\ probe.kind = "none"
  /\ Len(sheets) < MaxSheets
  /\ sheets' = Append(sheets, StyleSheet("head", kind))
  /\ UNCHANGED <<host, bodyKids, frames, timers, clock, calls, runs, probe>>

\* A rule is added at the end of the last stylesheet.
AddRule(rule) ==
  /\ probe.kind = "none"
  /\ sheets # <<>>
  /\ ListName(sheets[Len(sheets)]) # ""
  /\ TotalRules(sheets) < MaxRules
  /\ sheets' = [sheets EXCEPT ![Len(sheets)] =
       SetProp(@, ListName(@), Append(@[ListName(@)], rule))]
  /\ UNCHANGED <<host, bodyKids, frames, timers, clock, calls, runs, probe>>

\* getStylesForTree(rootNode) is applied to the page.
CollectRules(rootNode) ==
  /\ probe.kind = "none"
  /\ probe' = [kind |-> "collect", root |-> rootNode,
               out |-> getStylesForTree(rootNode, styleSheets(sheets, bodyKids))]
  /\ UNCHANGED <<host, sheets, bodyKids, frames, timers, clock, calls, runs>>

NextCollect ==
  \/ \E kind \in SheetKinds : AddStyleSheet(kind)
  \/ \E rule \in RuleUniverse : AddRule(rule)
  \/ \E rootNode \in Elements : CollectRules(rootNode)

SpecCollect == InitCollect /\ [][NextCollect]_vars

\* ------------------------------------------------------------------------
\* shouldAddRule applied to the rules a stylesheet can hold
\* ------------------------------------------------------------------------

\* What a group rule may hold: style rules, a group, a rule with neither
\* selector nor nested rules.
NestedUniverse == {RuleA, RuleB, RuleC, RuleX, RuleInnerMedia, RuleFontFace}

NestedLists == UNION {[1..n -> NestedUniverse] : n \in 0..MaxNested}

\* The group rule holding `nested`.
GroupOf(nested) ==
  GroupRule(nested,
            <<"@", "m", "e", "d", "i", "a", "{">>
              \o Join([i \in 1..Len(nested) |-> nested[i].cssText]) \o <<"}">>)

AnyRule == NestedUniverse \cup {GroupOf(nested) : nested \in NestedLists}

\* shouldAddRule(node, cssRule) is applied.
CheckRule(node, cssRule) ==
  /\ probe.kind = "none"
  /\ probe' = [kind |-> "shouldAddRule", node |-> node, rule |-> cssRule,
               out |-> shouldAddRule(node, cssRule)]
  /\ UNCHANGED <<host, sheets, bodyKids, frames, timers, clock, calls, runs>>

NextRelevance == \E node \in Elements : \E cssRule \in AnyRule : CheckRule(node, cssRule)

SpecRelevance == InitCollect /\ [][NextRelevance]_vars

\* ------------------------------------------------------------------------
\* Properties
\* ------------------------------------------------------------------------

Count(seq, x) == Cardinality({i \in 1..Len(seq) : seq[i] = x})

Last(seq) == seq[Len(seq)]

\* rootNode, then its descendant elements in document order.
Candidates(rootNode) == <<rootNode>> \o querySelectorAllStar(rootNode)

Collected == probe.kind = "collect" /\ ~probe.out.threw

Inaccessible(sheet) == sheet.crossOrigin \/ ListName(sheet) = ""

\* The rules of a sheet whose rule list can be read.
ReadableRules(sheet) == IF Inaccessible(sheet) THEN <<>> ELSE sheet[ListName(sheet)]

PageRules == UNION {{ReadableRules(sheets[i])[j] : j \in 1..RuleCount(sheets[i])}
                    : i \in {i \in 1..Len(sheets) : ~Inaccessible(sheets[i])}}

\* C1: when some stylesheet raises or gives nothing when its rule list is
\* read, getStylesForTree(rootNode) returns without raising, and returns
\* what it returns for the page without the inaccessible stylesheets.
C1_InaccessibleSheetsSkipped ==
  (probe.kind = "collect" /\ \E i \in 1..Len(sheets) : Inaccessible(sheets[i]))
    => /\ ~probe.out.threw
       /\ probe.out.keys =
            getStylesForTree(probe.root,
                             SelectSeq(sheets, LAMBDA sh : ~Inaccessible(sh))).keys

\* C5: in what getStylesForTree(rootNode) returns, the cssText of a rule is
\* an entry exactly once when the rule is in a readable stylesheet and
\* shouldAddRule holds of it for rootNode or for a descendant, and is no
\* entry otherwise; nothing else is an entry.
C5_EachRelevantRuleOnce ==
  Collected =>
    /\ \A rule \in RuleUniverse :
         Count(probe.out.keys, rule.cssText) =
           IF /\ rule \in PageRules
              /\ \E n \in 1..Len(Candidates(probe.root)) :
                   shouldAddRule(Candidates(probe.root)[n], rule)
           THEN 1 ELSE 0
    /\ \A i \in 1..Len(probe.out.keys) :
         \E rule \in RuleUniverse : rule.cssText = probe.out.keys[i]

\* A rule that two nodes of the tree match and that two stylesheets hold.
C5_Witness ==
  /\ Collected
  /\ probe.root = "n2"
  /\ Len(sheets) = 2
  /\ \A i \in 1..2 : ~Inaccessible(sheets[i]) /\ InSeq(RuleMedia, ReadableRules(sheets[i]))
  /\ shouldAddRule("n2", RuleMedia) /\ shouldAddRule("p2", RuleMedia)
  /\ Count(probe.out.keys, RuleMedia.cssText) = 1

\* What the claim says of a rule and a node: a group rule is relevant iff
\* the node matches the selector of one of its directly nested rules, a
\* nested rule without a selector matching no node; a rule with a selector
\* is relevant iff the node matches the selector.
RelevantAsClaimed(node, rule) ==
  IF "cssRules" \in DOMAIN rule
  THEN \E k \in 1..Len(rule.cssRules) :
         /\ "selectorText" \in DOMAIN rule.cssRules[k]
         /\ matches(node, rule.cssRules[k].selectorText)
  ELSE /\ "selectorText" \in DOMAIN rule
       /\ matches(node, rule.selectorText)

\* C6: shouldAddRule(node, rule) is true of a group rule iff node matches
\* the selector of one of its directly nested rules, a nested rule that has
\* no selectorText matching no node, and of a rule with a selector iff node
\* matches it.
C6_RelevanceAsClaimed ==
  (probe.kind = "shouldAddRule"
     /\ ("cssRules" \in DOMAIN probe.rule \/ "selectorText" \in DOMAIN probe.rule))
    => probe.out = RelevantAsClaimed(probe.node, probe.rule)

\* The cssText of the rules found relevant, in the order of the walk: node
\* by node, stylesheet by stylesheet, rule by rule.
Discoveries(rootNode, all) ==
  Concat([n \in 1..Len(Candidates(rootNode)) |->
    Concat([i \in 1..Len(all) |->
      Concat([j \in 1..Len(ReadableRules(all[i])) |->
        IF shouldAddRule(Candidates(rootNode)[n], ReadableRules(all[i])[j])
        THEN <<ReadableRules(all[i])[j].cssText>> ELSE <<>>])])])

\* A sequence without the repetitions of an earlier entry.
FirstOccurrences(seq) ==
  Concat([p \in 1..Len(seq) |->
    IF \E q \in 1..(p - 1) : seq[q] = seq[p] THEN <<>> ELSE <<seq[p]>>])

\* C9: what getStylesForTree(rootNode) returns is the rule texts in the
\* order of their first discovery by the walk, with nothing between them.
C9_FirstDiscoveryOrder ==
  Collected =>
    /\ probe.out.keys = FirstOccurrences(Discoveries(probe.root, sheets))
    /\ probe.out.value = Concat(FirstOccurrences(Discoveries(probe.root, sheets)))

\* The root finds the second rule of a sheet, a descendant the first one.
C9_Witness ==
  /\ Collected
  /\ probe.root = "n1"
  /\ Len(sheets) = 1 /\ ~Inaccessible(sheets[1])
  /\ ReadableRules(sheets[1]) = <<RuleX, RuleA>>
  /\ probe.out.keys = <<RuleA.cssText, RuleX.cssText>>

Succeeded(k) == calls[k].error = ""

HtmlSynthesized(k) == calls[k].error # "SecurityError"

\* C2: on a host without srcdoc, no callback is ever pending and no frame's
\* height is ever set.
C2_NoMeasurementWithoutSrcdoc ==
  ~host.srcdoc =>
    /\ timers = <<>>
    /\ runs = <<>>
    /\ \A k \in 1..Len(frames) : frames[k].height = <<>>

\* Each target is a child of body, or exactly one frame made for it is, at
\* the place the target had.
OneOfNodeAndFrame ==
  /\ Len(bodyKids) = 3
  /\ \A i \in 1..3 :
       LET node == <<"n1", "n2", "n3">>[i]
       IN \/ bodyKids[i] = NodeChild(node)
          \/ /\ bodyKids[i].kind = "iframe"
             /\ bodyKids[i].frame \in 1..Len(calls)
             /\ calls[bodyKids[i].frame].node = node
             /\ Succeeded(bodyKids[i].frame)
             /\ ~InSeq(NodeChild(node), bodyKids)

\* A step in which iframify(node) returns puts the new frame where node was
\* and changes nothing else of the child list.
ReplacedInPlace ==
  (Len(calls') = Len(calls) + 1 /\ Last(calls').error = "")
    => /\ \E i \in 1..Len(bodyKids) :
            /\ bodyKids[i] = NodeChild(Last(calls').node)
            /\ bodyKids' = [bodyKids EXCEPT ![i] = FrameChild(Len(frames'))]
       /\ parentNode(Last(calls').node, bodyKids') = Null
       /\ OneOfNodeAndFrame'

\* C3: when iframify(node) returns, node has no parent, the new frame is at
\* node's place in the parent's child list between the same siblings, the
\* other children are as they were; in no state are both or neither of a
\* node and its frame children of the parent.
C3_ReplacedInPlace == []OneOfNodeAndFrame /\ [][ReplacedInPlace]_vars

\* The middle child has been replaced.
C3_Witness ==
  /\ \E k \in 1..Len(calls) : Succeeded(k) /\ calls[k].node = "n2"
                               /\ bodyKids[2] = FrameChild(k)
  /\ bodyKids[1] = NodeChild("n1")
  /\ bodyKids[3] = NodeChild("n3")

\* C4: whenever the document was synthesized, src is the prefix followed by
\* an encoding of it, with or without srcdoc support; percent-decoding what
\* follows the prefix gives the document, and the document the data: URL
\* loads is the whole document.
C4_DataUriCarriesDocument ==
  \A k \in 1..Len(frames) :
    HtmlSynthesized(k) =>
      /\ SubSeq(frames[k].src, 1, Len(DataUriPrefix)) = DataUriPrefix
      /\ PercentDecode(AfterPrefix(frames[k].src)) = frames[k].srcdoc
      /\ DataUrlDocument(frames[k].src) = frames[k].srcdoc

\* A step in which iframify raises, and a step in which the callback does.
FaultLeavesDocument ==
  /\ (Len(calls') = Len(calls) + 1 /\ Last(calls').error # "")
       => /\ bodyKids' = bodyKids
          /\ timers' = timers
          /\ ~InSeq(FrameChild(Len(frames')), bodyKids')
  /\ (Len(runs') = Len(runs) + 1 /\ Last(runs').error # "")
       => /\ bodyKids' = bodyKids
          /\ InSeq(FrameChild(Last(runs').frame), bodyKids')
          /\ ~InSeq(NodeChild(calls[Last(runs').frame].node), bodyKids')
          /\ frames'[Last(runs').frame].height = <<>>

\* C7: when iframify raises before replaceChild has returned, the child
\* list is as it was, no frame has been attached and no callback has been
\* scheduled; when only the callback raises, the node stays replaced by the
\* frame and the frame's height stays unset.
C7_FaultLeavesDocument == [][FaultLeavesDocument]_vars

\* A call on a node without a parent has raised, and a callback has raised.
C7_Witness ==
  /\ \E k \in 1..Len(calls) : calls[k].error = "TypeError"
  /\ \E r \in 1..Len(runs) : runs[r].error # ""

PendingFor(k) == Cardinality({i \in 1..Len(timers) : timers[i].frame = k})

RunsFor(k) == Cardinality({r \in 1..Len(runs) : runs[r].frame = k})

\* C8: with srcdoc supported, each call that returned has exactly one
\* callback, pending or run, and a call that raised has none; a callback
\* runs no earlier than 500 after its call, with the frame in place of the
\* node, and sets the height to the largest of the five values followed by
\* "px"; a frame's height is set by that run only.
C8_OneMeasurementAfterDelay ==
  host.srcdoc =>
    /\ \A k \in 1..Len(calls) :
         /\ PendingFor(k) + RunsFor(k) = IF Succeeded(k) THEN 1 ELSE 0
         /\ (RunsFor(k) = 0) = (frames[k].height = <<>>)
    /\ \A r \in 1..Len(runs) :
         /\ runs[r].error = ""
         /\ runs[r].at >= calls[runs[r].frame].at + 500
         /\ InSeq(FrameChild(runs[r].frame), bodyKids)
         /\ \E x \in {runs[r].metrics[j] : j \in 1..5} :
              /\ \A j \in 1..5 : runs[r].metrics[j] <= x
              /\ frames[runs[r].frame].height = NumberToString(x) \o <<"p", "x">>

\* A callback has run where html.offsetHeight was the largest value.
C8_Witness ==
  /\ host.srcdoc
  /\ \E r \in 1..Len(runs) :
       /\ runs[r].error = ""
       /\ runs[r].metrics[5] = 420
       /\ frames[runs[r].frame].height = <<"4", "2", "0", "p", "x">>

\* C10: for calls on different children of body, each frame holds the
\* document its node gives on the page as it was before any call, at the
\* node's place, and a frame's height is set only by a run of its own
\* callback.
C10_CallsIndependent ==
  \A k \in 1..Len(calls) :
    Succeeded(k) =>
      /\ frames[k].srcdoc = getIframeContentForNode(calls[k].node, sheets).value
      /\ \E i \in 1..3 : <<"n1", "n2", "n3">>[i] = calls[k].node
                          /\ bodyKids[i] = FrameChild(k)
      /\ frames[k].height # <<>> =>
           \E r \in 1..Len(runs) : runs[r].frame = k /\ runs[r].error = ""

====
